---- MODULE Spec2Model ----
(***************************************************************************)
(* The task execution core of go-fred: the executor registry, the task    *)
(* record and its transitions, the built-in executors, and the task       *)
(* manager with its counting semaphore.  API callers and the goroutines   *)
(* spawned by ExecuteTaskAsync are threads that interleave at every point *)
(* where the Go code touches shared state (the task store, a task record, *)
(* the semaphore channel, the event sink).                                *)
(*                                                                         *)
(* The manager's time is a logical clock in whole seconds.  A float64 is  *)
(* a whole number and a count of tenths; the math inputs are chosen so    *)
(* that no fractional result arises.  The sleep executor is followed      *)
(* through time, in tenths of a second, in a specification of its own.    *)
(***************************************************************************)
EXTENDS Integers, Sequences, FiniteSets, TLC

\* ---------------------------------------------------------------- bounds
MaxTasks == 2        \* CreateTask calls that may succeed
MaxCalls == 3        \* API calls made over a run
MaxConcurrent == 1   \* the manager's maxConcurrent (capacity of the semaphore)
MaxRegisters == 3    \* Register calls made on a registry beyond the default ones

Callers == {"c1", "c2"}        \* threads issuing API calls
Goroutines == {"g1", "g2"}     \* goroutines ExecuteTaskAsync can spawn
Threads == Callers \cup Goroutines
Times == {0, 1}                \* the readings of the clock, in seconds

\* ------------------------------------------------------- values and inputs
NilTime == -1                  \* a nil *time.Time / *time.Duration
NoErr == "<nil>"               \* a nil error

\* A value of an input map: absent, a string, a float64 (n whole units and f
\* tenths: Frac(1, 5) is 1.5) or a Go int, which no executor takes for a number.
None == [t |-> "none", s |-> "", n |-> 0, f |-> 0]
Str(x) == [t |-> "str", s |-> x, n |-> 0, f |-> 0]
Num(x) == [t |-> "num", s |-> "", n |-> x, f |-> 0]
Frac(x, tenths) == [t |-> "num", s |-> "", n |-> x, f |-> tenths]
GoInt(x) == [t |-> "int", s |-> "", n |-> x, f |-> 0]

MkInput(op, a, b, d, m) ==
    [operation |-> op, a |-> a, b |-> b, duration |-> d, message |-> m]

EmptyInput == MkInput(None, None, None, None, None)

\* The requests callers submit: a task type, an input map and the async hint.
\* sleep succeeds or observes its context, math divides by zero and fails,
\* and no executor is registered for "invalid".
Requests ==
    { [type |-> "sleep", async |-> TRUE,
       input |-> MkInput(None, None, None, Num(1), None)],
      [type |-> "math", async |-> FALSE,
       input |-> MkInput(Str("divide"), Num(10), Num(0), None, None)],
      [type |-> "invalid", async |-> FALSE, input |-> EmptyInput] }

TaskTypes == {r.type : r \in Requests}

NilOutput ==
    [isNil |-> TRUE, message |-> "", echo |-> EmptyInput, slept_for_seconds |-> None,
     operation |-> "", a |-> 0, b |-> 0, result |-> 0]

\* ------------------------------------------------------------- task record
TaskStatusPending == "pending"
TaskStatusRunning == "running"
TaskStatusCompleted == "completed"
TaskStatusFailed == "failed"
TaskStatusCancelled == "cancelled"

NewTaskDropsHint(taskType, input, isAsync, t) ==
    [type |-> taskType, status |-> TaskStatusPending, input |-> input,
     output |-> NilOutput, error |-> "", createdAt |-> t, startedAt |-> NilTime,
     completedAt |-> NilTime, duration |-> NilTime, isAsync |-> FALSE]

NewTask(taskType, input, isAsync, t) ==
    [type |-> taskType, status |-> TaskStatusPending, input |-> input,
     output |-> NilOutput, error |-> "", createdAt |-> t, startedAt |-> NilTime,
     completedAt |-> NilTime, duration |-> NilTime, isAsync |-> isAsync]

StartStampsCreation(task, t) ==
    [task EXCEPT !.status = TaskStatusRunning, !.startedAt = t, !.createdAt = t]

Start(task, t) ==
    [task EXCEPT !.status = TaskStatusRunning, !.startedAt = t]

Complete(task, output, t) ==
    [task EXCEPT !.status = TaskStatusCompleted,
                 !.completedAt = t,
                 !.output = output,
                 !.duration = IF task.startedAt # NilTime THEN t - task.startedAt ELSE @]

Fail(task, e, t) ==
    [task EXCEPT !.status = TaskStatusFailed,
                 !.completedAt = t,
                 !.error = e,
                 !.duration = IF task.startedAt # NilTime THEN t - task.startedAt ELSE @]

CancelSkipsDuration(task, t) ==
    [task EXCEPT !.status = TaskStatusCancelled, !.completedAt = t]

Cancel(task, t) ==
    [task EXCEPT !.status = TaskStatusCancelled,
                 !.completedAt = t,
                 !.duration = IF task.startedAt # NilTime THEN t - task.startedAt ELSE @]

IsFinishedMissesCancelled(task) ==
    \/ task.status = TaskStatusCompleted
    \/ task.status = TaskStatusFailed

IsFinished(task) ==
    \/ task.status = TaskStatusCompleted
    \/ task.status = TaskStatusFailed
    \/ task.status = TaskStatusCancelled

\* ---------------------------------------------------------------- executors
OutputWith(message) == [NilOutput EXCEPT !.isNil = FALSE, !.message = message]

\* The result of one Execute call: the error returned, and the value the
\* executor assigned to task.Output when sets is TRUE.
Failure(e) == [err |-> e, sets |-> FALSE, output |-> NilOutput]
Success(out) == [err |-> NoErr, sets |-> TRUE, output |-> out]

ContextCanceled == "context canceled"

EchoExecute(input) ==
    { Success([OutputWith("Task executed successfully") EXCEPT !.echo = input]) }

\* done: whether ctx.Done() is closed when the select runs.  The timer of
\* time.After may have fired too, and select then takes either case.
SleepExecuteOutputsOnCancel(input, done) ==
    IF input.duration.t # "num"
    THEN { Failure("duration must be a number") }
    ELSE (IF done THEN { [err |-> ContextCanceled, sets |-> TRUE,
                          output |-> OutputWith("Sleep completed successfully")] }
          ELSE {})
         \cup { Success([OutputWith("Sleep completed successfully")
                           EXCEPT !.slept_for_seconds = input.duration]) }

SleepExecute(input, done) ==
    IF input.duration.t # "num"
    THEN { Failure("duration must be a number") }
    ELSE (IF done THEN { Failure(ContextCanceled) } ELSE {})
         \cup { Success([OutputWith("Sleep completed successfully")
                           EXCEPT !.slept_for_seconds = input.duration]) }

ErrorExecute(input) ==
    { Failure(IF input.message.t = "str" THEN input.message.s
              ELSE "Task failed as requested") }

MathExecute(input) ==
    LET operation == input.operation.s
        a == input.a.n
        b == input.b.n
        done(result) ==
            { Success([OutputWith("") EXCEPT !.operation = operation, !.a = a,
                                             !.b = b, !.result = result]) }
    IN  IF input.operation.t # "str" THEN { Failure("operation must be a string") }
        ELSE IF input.a.t # "num" THEN { Failure("a must be a number") }
        ELSE IF input.b.t # "num" THEN { Failure("b must be a number") }
        ELSE CASE operation = "add" -> done(a + b)
               [] operation = "subtract" -> done(a - b)
               [] operation = "multiply" -> done(a * b)
               [] operation = "divide" ->
                      IF b = 0 THEN { Failure("division by zero") }
                      ELSE done(a \div b)
               [] OTHER -> { Failure("unsupported operation: " \o operation) }

Execute(executor, input, done) ==
    CASE executor = "echo" -> EchoExecute(input)
      [] executor = "sleep" -> SleepExecute(input, done)
      [] executor = "error" -> ErrorExecute(input)
      [] executor = "math" -> MathExecute(input)

\* ----------------------------------------------------------------- registry
\* RegisterDefaultExecutors: the registry the server and the tests start from.
DefaultExecutors == [k \in {"echo", "sleep", "error", "math"} |-> k]

\* The Register calls RegisterDefaultExecutors makes, in order.
DefaultRegistrations ==
    << [type |-> "echo", executor |-> "echo"], [type |-> "sleep", executor |-> "sleep"],
       [type |-> "error", executor |-> "error"], [type |-> "math", executor |-> "math"] >>

\* Register's assignment r.executors[taskType] = executor.
PutForgetsOthers(registry, taskType, executor) ==
    [k \in {taskType} |-> executor]

PutKeepsFirst(registry, taskType, executor) ==
    IF taskType \in DOMAIN registry THEN registry
    ELSE [k \in DOMAIN registry \cup {taskType} |->
             IF k = taskType THEN executor ELSE registry[k]]

Put(registry, taskType, executor) ==
    [k \in DOMAIN registry \cup {taskType} |->
        IF k = taskType THEN executor ELSE registry[k]]

\* GetSupportedTypes appends the keys of the map in the order the iteration
\* yields them, which Go leaves open: every ordering of the keys is a possible result.
GetSupportedTypes(registry) ==
    {s \in [1 .. Cardinality(DOMAIN registry) -> DOMAIN registry] :
        \A i, j \in DOMAIN s : i # j => s[i] # s[j]}

\* The handler of GET /task-types.
GetTaskTypes == <<"echo", "sleep", "error", "math">>

\* The kinds and executors the Register calls of a run are drawn from.
RegistryKinds == {"echo", "math", "custom"}
RegistryExecutors == {"echo", "error"}

GetExecutorUnchecked(registry, taskType) ==
    [err |-> NoErr,
     executor |-> IF taskType \in DOMAIN registry THEN registry[taskType] ELSE ""]

GetExecutor(registry, taskType) ==
    IF taskType \in DOMAIN registry
    THEN [err |-> NoErr, executor |-> registry[taskType]]
    ELSE [err |-> "no executor found for task type: " \o taskType, executor |-> ""]

\* ------------------------------------------------------------------- state
VARIABLES
    executors,   \* ExecutorRegistry.executors: task type -> executor
    registered,  \* the Register calls made on the registry, in order
    sinkUp,      \* whether the event sink's Publish succeeds
    server,      \* the Server: its httpServer, its sink closed or not, its Stop call
    maxConcurrent, \* TaskManager.maxConcurrent: the capacity of the semaphore
    listed,      \* what the last ListTasks returned, with the tasks as they were then
    sleeper,     \* one SleepExecutor.Execute call, followed through time
    mu,          \* TaskManager.mu: the thread holding the store's lock, "" when free
    stamp,       \* stamp[t]: the time.Now() read by the transition thread t is writing
    tasks,       \* TaskManager.tasks: tasks[id] is the record of task id
    semaphore,   \* number of tokens in the channel TaskManager.semaphore
    events,      \* what the event sink has been handed, in order
    now,         \* the clock: the latest reading of time.Now()
    calls,       \* API calls made so far
    pc,          \* where each thread stands
    cur,         \* the task id a thread is working on
    startTime,   \* executeTaskInternal's local startTime
    err,         \* executeTaskInternal's local err
    duration,    \* executeTaskInternal's local duration
    ctxDone,     \* whether the ctx a caller passed to ExecuteTask is cancelled
    ret          \* the API call that returned last: caller, operation, id, error

vars == <<executors, registered, sinkUp, server, maxConcurrent, listed, sleeper, mu, stamp, tasks, semaphore, events, now, calls, pc, cur, startTime,
          err, duration, ctxDone, ret>>

locals == <<startTime, err, duration>>

TaskIds == 1 .. MaxTasks            \* the ids callers may name, stored or not yet

NoRet == [caller |-> "", op |-> "", id |-> 0, err |-> NoErr]

\* No Execute call of the sleep executor is being followed.
\* The Server after New: httpServer is nil until Start, the publisher is open,
\* and Stop has not been called.
NoServer == [httpServer |-> "nil", closed |-> FALSE, stop |-> "", err |-> NoErr]

NoSleeper ==
    [phase |-> "none", input |-> EmptyInput, ctxDone |-> FALSE, cancelledAt |-> NilTime,
     timer |-> NilTime, elapsed |-> 0, err |-> NoErr, output |-> NilOutput]

\* The manager after NewTaskManager, whatever the registry and the sink it was given.
InitManager ==
    /\ listed = << >>
    /\ mu = ""
    /\ stamp = [t \in Threads |-> NilTime]
    /\ sleeper = NoSleeper
    /\ tasks = << >>
    /\ semaphore = 0
    /\ events = << >>
    /\ now = 0
    /\ calls = 0
    /\ pc = [t \in Threads |-> IF t \in Callers THEN "idle" ELSE "unspawned"]
    /\ cur = [t \in Threads |-> 0]
    /\ startTime = [t \in Threads |-> NilTime]
    /\ err = [t \in Threads |-> NoErr]
    /\ duration = [t \in Threads |-> NilTime]
    /\ ctxDone = [t \in Threads |-> FALSE]
    /\ ret = NoRet

\* The server's setup: the default executors registered, a sink that works.
Init ==
    /\ executors = DefaultExecutors
    /\ registered = DefaultRegistrations
    /\ sinkUp = TRUE
    /\ server = NoServer
    /\ maxConcurrent = MaxConcurrent
    /\ InitManager

\* ------------------------------------------------------------------ events
EventTypeTaskCreated == "task.created"
EventTypeTaskStarted == "task.started"
EventTypeTaskCompleted == "task.completed"
EventTypeTaskFailed == "task.failed"
EventTypeTaskCancelled == "task.cancelled"

Milliseconds(d) == d * 1000

NewEvent(eventType, taskID) ==
    [type |-> eventType, task_id |-> taskID, task_type |-> "", is_async |-> FALSE,
     duration_ms |-> NilTime, error |-> "", result |-> NilOutput]

Publish(event) == events' = Append(events, event)

\* What Publish returns to the helper, and the helper to the manager, which
\* drops it at every call site.
PublishFailed == "failed to write message to kafka"
PublishResult == IF sinkUp THEN NoErr ELSE PublishFailed

\* --------------------------------------------------------------- the clock
\* now is the latest value time.Now() has returned.  A later call returns a
\* value that is no earlier; every step that calls time.Now() draws it from Clock.
Clock == {t \in Times : t >= now}

\* A caller's API call returns e.
Return(c, op, id, e) ==
    /\ pc' = [pc EXCEPT ![c] = "idle"]
    /\ ret' = [caller |-> c, op |-> op, id |-> id, err |-> e]

\* Callers differ in name only: a new call is issued by c1 unless c1 is busy.
Idle(c) == pc[c] = "idle" /\ (c = "c2" => pc["c1"] # "idle")

TaskNotFound(id) == "task not found: " \o ToString(id)
AlreadyFinished(id) == "task " \o ToString(id) \o " is already finished"

\* ------------------------------------------------------------ task manager
\* tm.mu can be taken, for reading or for writing: no thread holds it.
StoreUnlocked == mu = ""

GetTaskHidesFinished(id) ==
    IF id \in DOMAIN tasks /\ ~IsFinished(tasks[id])
    THEN [err |-> NoErr, task |-> tasks[id]]
    ELSE [err |-> TaskNotFound(id), task |-> NewTask("", EmptyInput, FALSE, 0)]

\* GetTask: the stored task, or the not-found error.
GetTask(id) ==
    IF id \in DOMAIN tasks
    THEN [err |-> NoErr, task |-> tasks[id]]
    ELSE [err |-> TaskNotFound(id), task |-> NewTask("", EmptyInput, FALSE, 0)]

GuardRejectsRunning(id) ==
    LET got == GetTask(id)
    IN  IF got.err # NoErr THEN got.err
        ELSE IF got.task.status # TaskStatusPending THEN AlreadyFinished(id)
        ELSE NoErr

\* The check ExecuteTask, ExecuteTaskAsync and CancelTask open with.
Guard(id) ==
    LET got == GetTask(id)
    IN  IF got.err # NoErr THEN got.err
        ELSE IF IsFinished(got.task) THEN AlreadyFinished(id)
        ELSE NoErr

\* The orders a range over the map tm.tasks may visit the stored ids in.
IterationOrders ==
    {order \in [1 .. Len(tasks) -> DOMAIN tasks] :
        \A i, j \in 1 .. Len(tasks) : order[i] = order[j] => i = j}

\* ListTasks: under the read lock, one pointer per stored task appended to a new
\* slice. listed[i].id is the task the i-th pointer points to, listed[i].seen is that
\* task as it was when listed; what the caller reads through the pointer is tasks[id].
ListTasks(c) ==
    /\ Idle(c)
    /\ calls < MaxCalls
    /\ StoreUnlocked
    /\ calls' = calls + 1
    /\ \E order \in IterationOrders :
          listed' = [i \in 1 .. Len(tasks) |-> [id |-> order[i], seen |-> tasks[order[i]]]]
    /\ Return(c, "ListTasks", 0, NoErr)
    /\ UNCHANGED <<executors, registered, sinkUp, server, maxConcurrent, sleeper, mu, stamp, tasks, semaphore, events, now,
                   cur, locals, ctxDone>>

\* The i-th task of the returned slice, read now.
ListedTask(i) == tasks[listed[i].id]

CreateTaskKeepsLock(c, taskType, input, isAsync) ==
    /\ Idle(c)
    /\ calls < MaxCalls
    /\ calls' = calls + 1
    /\ LET found == GetExecutor(executors, taskType)
       IN  IF found.err # NoErr
           THEN /\ Return(c, "CreateTask", 0, found.err)
                /\ UNCHANGED <<tasks, cur, now, mu>>
           ELSE /\ Len(tasks) < MaxTasks
                /\ StoreUnlocked
                /\ \E t \in Clock :
                      /\ now' = t
                      /\ tasks' = Append(tasks, NewTask(taskType, input, isAsync, t))
                /\ cur' = [cur EXCEPT ![c] = Len(tasks) + 1]
                /\ pc' = [pc EXCEPT ![c] = "create_publish"]
                /\ mu' = c
                /\ UNCHANGED ret
    /\ UNCHANGED <<executors, registered, sinkUp, server, maxConcurrent, listed, sleeper, stamp, semaphore, events, locals, ctxDone>>

\* CreateTask up to the store: the registry lookup, NewTask, tm.tasks[task.ID] = task.
\* uuid.New() is an id no stored task has: the next index.
CreateTask(c, taskType, input, isAsync) ==
    /\ Idle(c)
    /\ calls < MaxCalls
    /\ calls' = calls + 1
    /\ LET found == GetExecutor(executors, taskType)
       IN  IF found.err # NoErr
           THEN /\ Return(c, "CreateTask", 0, found.err)
                /\ UNCHANGED <<tasks, cur, now>>
           ELSE /\ Len(tasks) < MaxTasks
                /\ StoreUnlocked
                /\ \E t \in Clock :
                      /\ now' = t
                      /\ tasks' = Append(tasks, NewTask(taskType, input, isAsync, t))
                /\ cur' = [cur EXCEPT ![c] = Len(tasks) + 1]
                /\ pc' = [pc EXCEPT ![c] = "create_publish"]
                /\ UNCHANGED ret
    /\ UNCHANGED <<executors, registered, sinkUp, server, maxConcurrent, listed, sleeper, mu, stamp, semaphore, events, locals, ctxDone>>

PublishTaskCreatedPropagates(c) ==
    /\ pc[c] = "create_publish"
    /\ Publish([NewEvent(EventTypeTaskCreated, cur[c])
                  EXCEPT !.task_type = tasks[cur[c]].type,
                         !.is_async = tasks[cur[c]].isAsync])
    /\ Return(c, "CreateTask", cur[c], PublishResult)
    /\ cur' = [cur EXCEPT ![c] = 0]
    /\ UNCHANGED <<executors, registered, sinkUp, server, maxConcurrent, listed, sleeper, mu, stamp, tasks, semaphore, now, calls, locals, ctxDone>>

\* CreateTask from the publish on: PublishTaskCreated, return task.
PublishTaskCreated(c) ==
    /\ pc[c] = "create_publish"
    /\ Publish([NewEvent(EventTypeTaskCreated, cur[c])
                  EXCEPT !.task_type = tasks[cur[c]].type,
                         !.is_async = tasks[cur[c]].isAsync])
    /\ Return(c, "CreateTask", cur[c], NoErr)
    /\ cur' = [cur EXCEPT ![c] = 0]
    /\ UNCHANGED <<executors, registered, sinkUp, server, maxConcurrent, listed, sleeper, mu, stamp, tasks, semaphore, now, calls, locals, ctxDone>>

\* ExecuteTask up to the select: GetTask and the IsFinished check.
ExecuteTask(c, id) ==
    /\ Idle(c)
    /\ calls < MaxCalls
    /\ StoreUnlocked
    /\ calls' = calls + 1
    /\ IF Guard(id) # NoErr
       THEN /\ Return(c, "ExecuteTask", id, Guard(id))
            /\ UNCHANGED cur
       ELSE /\ pc' = [pc EXCEPT ![c] = "acquire"]
            /\ cur' = [cur EXCEPT ![c] = id]
            /\ UNCHANGED ret
    /\ UNCHANGED <<executors, registered, sinkUp, server, maxConcurrent, listed, sleeper, mu, stamp, tasks, semaphore, events, now, locals, ctxDone>>

\* The caller of ExecuteTask cancels the context it passed.  The context is read
\* by the select of ExecuteTask and by the executor, and by nothing after them.
CancelContext(c) ==
    /\ pc[c] \in {"acquire", "invoke"}
    /\ ~ctxDone[c]
    /\ ctxDone' = [ctxDone EXCEPT ![c] = TRUE]
    /\ UNCHANGED <<executors, registered, sinkUp, server, maxConcurrent, listed, sleeper, mu, stamp, tasks, semaphore, events, now, calls, pc, cur, locals, ret>>

\* A send on tm.semaphore can proceed: the channel, made with capacity
\* maxConcurrent, is not full.
SemaphoreHasRoomOffByOne == semaphore <= maxConcurrent

SemaphoreHasRoom == semaphore < maxConcurrent

AcquireSemaphoreRechecks(t) ==
    /\ pc[t] = "acquire"
    /\ SemaphoreHasRoom
    /\ IF IsFinished(tasks[cur[t]])
       THEN /\ IF t \in Callers
               THEN Return(t, "ExecuteTask", cur[t], AlreadyFinished(cur[t]))
               ELSE pc' = [pc EXCEPT ![t] = "exited"] /\ UNCHANGED ret
            /\ cur' = [cur EXCEPT ![t] = 0]
            /\ UNCHANGED <<tasks, semaphore, events, now, startTime>>
       ELSE /\ semaphore' = semaphore + 1
            /\ \E at \in Clock :
                  /\ now' = at
                  /\ startTime' = [startTime EXCEPT ![t] = at]
                  /\ tasks' = [tasks EXCEPT ![cur[t]] = Start(@, at)]
            /\ Publish(NewEvent(EventTypeTaskStarted, cur[t]))
            /\ pc' = [pc EXCEPT ![t] = "invoke"]
            /\ UNCHANGED <<cur, ret>>
    /\ UNCHANGED <<executors, registered, sinkUp, server, maxConcurrent, listed, sleeper, mu, stamp, calls, err, duration, ctxDone>>

AcquireSemaphoreSkipsPublish(t) ==
    /\ pc[t] = "acquire"
    /\ SemaphoreHasRoom
    /\ semaphore' = semaphore + 1
    /\ \E at \in Clock :
          /\ now' = at
          /\ startTime' = [startTime EXCEPT ![t] = at]
          /\ tasks' = [tasks EXCEPT ![cur[t]] = Start(@, at)]
    /\ pc' = [pc EXCEPT ![t] = "invoke"]
    /\ UNCHANGED <<executors, registered, sinkUp, server, maxConcurrent, listed, sleeper, mu, stamp, events, calls, cur, err, duration, ctxDone, ret>>

\* case tm.semaphore <- struct{}{}: the send on the channel.  The thread then enters
\* executeTaskInternal, lines 178-182: startTime := time.Now(); task.Start();
\* PublishTaskStarted.  A publish is taken together with the transition it reports.
AcquireSemaphore(t) ==
    /\ pc[t] = "acquire"
    /\ SemaphoreHasRoom
    /\ semaphore' = semaphore + 1
    /\ \E at \in Clock :
          /\ now' = at
          /\ startTime' = [startTime EXCEPT ![t] = at]
          /\ tasks' = [tasks EXCEPT ![cur[t]] = Start(@, at)]
    /\ Publish(NewEvent(EventTypeTaskStarted, cur[t]))
    /\ pc' = [pc EXCEPT ![t] = "invoke"]
    /\ UNCHANGED <<executors, registered, sinkUp, server, maxConcurrent, listed, sleeper, mu, stamp, calls, cur, err, duration, ctxDone, ret>>

AcquireCancelledMarksTask(c) ==
    /\ pc[c] = "acquire"
    /\ ctxDone[c]
    /\ Return(c, "ExecuteTask", cur[c], ContextCanceled)
    /\ ctxDone' = [ctxDone EXCEPT ![c] = FALSE]
    /\ cur' = [cur EXCEPT ![c] = 0]
    /\ tasks' = [tasks EXCEPT ![cur[c]] = Cancel(@, now)]
    /\ UNCHANGED <<executors, registered, sinkUp, server, maxConcurrent, listed, sleeper, mu, stamp, semaphore, events, now, calls, locals>>

AcquireCancelledKeepsSlot(c) ==
    /\ pc[c] = "acquire"
    /\ ctxDone[c]
    /\ Return(c, "ExecuteTask", cur[c], ContextCanceled)
    /\ ctxDone' = [ctxDone EXCEPT ![c] = FALSE]
    /\ cur' = [cur EXCEPT ![c] = 0]
    /\ semaphore' = semaphore + 1
    /\ UNCHANGED <<executors, registered, sinkUp, server, maxConcurrent, listed, sleeper, mu, stamp, tasks, events, now, calls, locals>>

\* case <-ctx.Done(): return ctx.Err()
AcquireCancelled(c) ==
    /\ pc[c] = "acquire"
    /\ ctxDone[c]
    /\ Return(c, "ExecuteTask", cur[c], ContextCanceled)
    /\ ctxDone' = [ctxDone EXCEPT ![c] = FALSE]
    /\ cur' = [cur EXCEPT ![c] = 0]
    /\ UNCHANGED <<executors, registered, sinkUp, server, maxConcurrent, listed, sleeper, mu, stamp, tasks, semaphore, events, now, calls, locals>>

ExecuteTaskAsyncWaitsForSlot(c, id) ==
    /\ Idle(c)
    /\ calls < MaxCalls
    /\ StoreUnlocked
    /\ calls' = calls + 1
    /\ IF Guard(id) # NoErr
       THEN /\ Return(c, "ExecuteTaskAsync", id, Guard(id))
            /\ UNCHANGED cur
       ELSE /\ SemaphoreHasRoom
            /\ \E g \in Goroutines : pc[g] = "unspawned"
            /\ LET g == CHOOSE h \in Goroutines : pc[h] = "unspawned"
               IN  /\ pc' = [pc EXCEPT ![g] = "acquire", ![c] = "idle"]
                   /\ cur' = [cur EXCEPT ![g] = id]
            /\ ret' = [caller |-> c, op |-> "ExecuteTaskAsync", id |-> id, err |-> NoErr]
    /\ UNCHANGED <<executors, registered, sinkUp, server, maxConcurrent, listed, sleeper, mu, stamp, tasks, semaphore, events, now, locals, ctxDone>>

ExecuteTaskAsyncStartsTask(c, id) ==
    /\ Idle(c)
    /\ calls < MaxCalls
    /\ StoreUnlocked
    /\ calls' = calls + 1
    /\ IF Guard(id) # NoErr
       THEN /\ Return(c, "ExecuteTaskAsync", id, Guard(id))
            /\ UNCHANGED <<cur, tasks>>
       ELSE /\ \E g \in Goroutines : pc[g] = "unspawned"
            /\ LET g == CHOOSE h \in Goroutines : pc[h] = "unspawned"
               IN  /\ pc' = [pc EXCEPT ![g] = "acquire", ![c] = "idle"]
                   /\ cur' = [cur EXCEPT ![g] = id]
            /\ tasks' = [tasks EXCEPT ![id] = Start(@, now)]
            /\ ret' = [caller |-> c, op |-> "ExecuteTaskAsync", id |-> id, err |-> NoErr]
    /\ UNCHANGED <<executors, registered, sinkUp, server, maxConcurrent, listed, sleeper, mu, stamp, semaphore, events, now, locals, ctxDone>>

\* ExecuteTaskAsync: the checks, then the go statement.
ExecuteTaskAsync(c, id) ==
    /\ Idle(c)
    /\ calls < MaxCalls
    /\ StoreUnlocked
    /\ calls' = calls + 1
    /\ IF Guard(id) # NoErr
       THEN /\ Return(c, "ExecuteTaskAsync", id, Guard(id))
            /\ UNCHANGED cur
       ELSE /\ \E g \in Goroutines : pc[g] = "unspawned"
            /\ LET g == CHOOSE h \in Goroutines : pc[h] = "unspawned"
               IN  /\ pc' = [pc EXCEPT ![g] = "acquire", ![c] = "idle"]
                   /\ cur' = [cur EXCEPT ![g] = id]
            /\ ret' = [caller |-> c, op |-> "ExecuteTaskAsync", id |-> id, err |-> NoErr]
    /\ UNCHANGED <<executors, registered, sinkUp, server, maxConcurrent, listed, sleeper, mu, stamp, tasks, semaphore, events, now, locals, ctxDone>>

\* executeTaskInternal, lines 185-195: the registry lookup, executor.Execute
\* (which assigns task.Output when it succeeds) and duration := time.Since(startTime).
\* When the lookup fails, duration stays unset: time.Since is read at the publish.
InvokeExecutor(t) ==
    /\ pc[t] = "invoke"
    /\ LET task == tasks[cur[t]]
           found == GetExecutor(executors, task.type)
       IN  IF found.err # NoErr
           THEN /\ err' = [err EXCEPT ![t] = found.err]
                /\ duration' = [duration EXCEPT ![t] = NilTime]
                /\ UNCHANGED <<tasks, now>>
           ELSE \E r \in Execute(found.executor, task.input, ctxDone[t]), at \in Clock :
                   /\ now' = at
                   /\ err' = [err EXCEPT ![t] = r.err]
                   /\ duration' = [duration EXCEPT ![t] = at - startTime[t]]
                   /\ tasks' = IF r.sets
                               THEN [tasks EXCEPT ![cur[t]].output = r.output]
                               ELSE tasks
    /\ pc' = [pc EXCEPT ![t] = "finish"]
    /\ ctxDone' = [ctxDone EXCEPT ![t] = FALSE]
    /\ UNCHANGED <<executors, registered, sinkUp, server, maxConcurrent, listed, sleeper, mu, stamp, semaphore, events, calls, cur, startTime, ret>>

FinishTaskCancelsOnCancellation(t) ==
    /\ pc[t] = "finish"
    /\ \E at \in Clock :
          LET d == IF duration[t] = NilTime THEN at - startTime[t] ELSE duration[t]
              task == tasks[cur[t]]
          IN  /\ now' = at
              /\ IF err[t] # NoErr
                 THEN IF err[t] = ContextCanceled
                      THEN /\ tasks' = [tasks EXCEPT ![cur[t]] = Cancel(task, at)]
                           /\ Publish(NewEvent(EventTypeTaskCancelled, cur[t]))
                      ELSE /\ tasks' = [tasks EXCEPT ![cur[t]] = Fail(task, err[t], at)]
                           /\ Publish([NewEvent(EventTypeTaskFailed, cur[t])
                                         EXCEPT !.duration_ms = Milliseconds(d),
                                                !.error = err[t]])
                 ELSE /\ tasks' = [tasks EXCEPT ![cur[t]] =
                                      Complete(task, task.output, at)]
                      /\ Publish([NewEvent(EventTypeTaskCompleted, cur[t])
                                    EXCEPT !.duration_ms = Milliseconds(d),
                                           !.result = task.output])
    /\ pc' = [pc EXCEPT ![t] = "release"]
    /\ UNCHANGED <<executors, registered, sinkUp, server, maxConcurrent, listed, sleeper, mu, stamp, semaphore, calls, cur, locals, ctxDone, ret>>

\* executeTaskInternal, lines 186-190 and 197-205: task.Fail(err) and
\* PublishTaskFailed, or task.Complete(task.Output) and PublishTaskCompleted.
FinishTask(t) ==
    /\ pc[t] = "finish"
    /\ \E at \in Clock :
          LET d == IF duration[t] = NilTime THEN at - startTime[t] ELSE duration[t]
              task == tasks[cur[t]]
          IN  /\ now' = at
              /\ IF err[t] # NoErr
                 THEN /\ tasks' = [tasks EXCEPT ![cur[t]] = Fail(task, err[t], at)]
                      /\ Publish([NewEvent(EventTypeTaskFailed, cur[t])
                                    EXCEPT !.duration_ms = Milliseconds(d),
                                           !.error = err[t]])
                 ELSE /\ tasks' = [tasks EXCEPT ![cur[t]] =
                                      Complete(task, task.output, at)]
                      /\ Publish([NewEvent(EventTypeTaskCompleted, cur[t])
                                    EXCEPT !.duration_ms = Milliseconds(d),
                                           !.result = task.output])
    /\ pc' = [pc EXCEPT ![t] = "release"]
    /\ UNCHANGED <<executors, registered, sinkUp, server, maxConcurrent, listed, sleeper, mu, stamp, semaphore, calls, cur, locals, ctxDone, ret>>

ReleaseSemaphoreKeepsSlot(t) ==
    /\ pc[t] = "release"
    /\ IF t \in Callers
       THEN Return(t, "ExecuteTask", cur[t], err[t])
       ELSE pc' = [pc EXCEPT ![t] = "exited"] /\ UNCHANGED ret
    /\ startTime' = [startTime EXCEPT ![t] = NilTime]
    /\ err' = [err EXCEPT ![t] = NoErr]
    /\ duration' = [duration EXCEPT ![t] = NilTime]
    /\ cur' = [cur EXCEPT ![t] = 0]
    /\ UNCHANGED <<executors, registered, sinkUp, server, maxConcurrent, listed, sleeper, mu, stamp, tasks, semaphore, events, now, calls, ctxDone>>

\* The deferred <-tm.semaphore, and the return of executeTaskInternal's err.
ReleaseSemaphore(t) ==
    /\ pc[t] = "release"
    /\ semaphore' = semaphore - 1
    /\ IF t \in Callers
       THEN Return(t, "ExecuteTask", cur[t], err[t])
       ELSE pc' = [pc EXCEPT ![t] = "exited"] /\ UNCHANGED ret
    /\ startTime' = [startTime EXCEPT ![t] = NilTime]
    /\ err' = [err EXCEPT ![t] = NoErr]
    /\ duration' = [duration EXCEPT ![t] = NilTime]
    /\ cur' = [cur EXCEPT ![t] = 0]
    /\ UNCHANGED <<executors, registered, sinkUp, server, maxConcurrent, listed, sleeper, mu, stamp, tasks, events, now, calls, ctxDone>>

\* CancelTask up to task.Cancel(): GetTask and the IsFinished check.
CancelTask(c, id) ==
    /\ Idle(c)
    /\ calls < MaxCalls
    /\ StoreUnlocked
    /\ calls' = calls + 1
    /\ IF Guard(id) # NoErr
       THEN /\ Return(c, "CancelTask", id, Guard(id))
            /\ UNCHANGED cur
       ELSE /\ pc' = [pc EXCEPT ![c] = "cancel"]
            /\ cur' = [cur EXCEPT ![c] = id]
            /\ UNCHANGED ret
    /\ UNCHANGED <<executors, registered, sinkUp, server, maxConcurrent, listed, sleeper, mu, stamp, tasks, semaphore, events, now, locals, ctxDone>>

CancelStatusReleasesSlot(c) ==
    /\ pc[c] = "cancel"
    /\ \E at \in Clock :
          /\ now' = at
          /\ tasks' = [tasks EXCEPT ![cur[c]] = Cancel(@, at)]
    /\ Publish(NewEvent(EventTypeTaskCancelled, cur[c]))
    /\ Return(c, "CancelTask", cur[c], NoErr)
    /\ cur' = [cur EXCEPT ![c] = 0]
    /\ semaphore' = IF \E t \in Threads : pc[t] = "invoke" /\ cur[t] = cur[c]
                    THEN semaphore - 1 ELSE semaphore
    /\ UNCHANGED <<executors, registered, sinkUp, server, maxConcurrent, listed, sleeper, mu, stamp, calls, locals, ctxDone>>

\* CancelTask from task.Cancel() on: PublishTaskCancelled, return nil.
CancelStatus(c) ==
    /\ pc[c] = "cancel"
    /\ \E at \in Clock :
          /\ now' = at
          /\ tasks' = [tasks EXCEPT ![cur[c]] = Cancel(@, at)]
    /\ Publish(NewEvent(EventTypeTaskCancelled, cur[c]))
    /\ Return(c, "CancelTask", cur[c], NoErr)
    /\ cur' = [cur EXCEPT ![c] = 0]
    /\ UNCHANGED <<executors, registered, sinkUp, server, maxConcurrent, listed, sleeper, mu, stamp, semaphore, calls, locals, ctxDone>>

\* ----------------------------------------------------------------- registry
\* The registry starts with the default executors when they were registered first.
HasDefaults ==
    /\ Len(registered) >= Len(DefaultRegistrations)
    /\ SubSeq(registered, 1, Len(DefaultRegistrations)) = DefaultRegistrations

ExtraRegisters ==
    Len(registered) - (IF HasDefaults THEN Len(DefaultRegistrations) ELSE 0)

Register(taskType, executor) ==
    /\ ExtraRegisters < MaxRegisters
    /\ executors' = Put(executors, taskType, executor)
    /\ registered' = Append(registered, [type |-> taskType, executor |-> executor])
    /\ UNCHANGED <<sinkUp, server, maxConcurrent, listed, sleeper, mu, stamp, tasks, semaphore, events, now, calls, pc, cur, locals,
                   ctxDone, ret>>

\* RegisterDefaultExecutors on a new registry: four Register calls.
RegisterDefaultExecutors ==
    /\ registered = << >>
    /\ executors' = Put(Put(Put(Put(executors, "echo", "echo"), "sleep", "sleep"),
                            "error", "error"), "math", "math")
    /\ registered' = DefaultRegistrations
    /\ UNCHANGED <<sinkUp, server, maxConcurrent, listed, sleeper, mu, stamp, tasks, semaphore, events, now, calls, pc, cur, locals,
                   ctxDone, ret>>

\* ------------------------------------------------------------ specification
Next ==
    \/ \E c \in Callers, r \in Requests : CreateTask(c, r.type, r.input, r.async)
    \/ \E c \in Callers : PublishTaskCreated(c)
    \/ \E c \in Callers, id \in TaskIds : ExecuteTask(c, id)
    \/ \E c \in Callers : CancelContext(c)
    \/ \E t \in Threads : AcquireSemaphore(t)
    \/ \E c \in Callers : AcquireCancelled(c)
    \/ \E c \in Callers, id \in TaskIds : ExecuteTaskAsync(c, id)
    \/ \E t \in Threads : InvokeExecutor(t)
    \/ \E t \in Threads : FinishTask(t)
    \/ \E t \in Threads : ReleaseSemaphore(t)
    \/ \E c \in Callers, id \in TaskIds : CancelTask(c, id)
    \/ \E c \in Callers : CancelStatus(c)

Spec == Init /\ [][Next]_vars

\* Scheduling: a thread that can run is run, and the built-in executors return.
\* A send on the semaphore channel that finds it full queues the sender, and
\* receives serve the queue in order: a waiting sender is not passed over for ever.
Fairness ==
    \A t \in Threads :
        /\ SF_vars(AcquireSemaphore(t) /\ t \in Goroutines)
        /\ WF_vars(InvokeExecutor(t))
        /\ WF_vars(FinishTask(t))
        /\ WF_vars(ReleaseSemaphore(t))

FairSpec == Spec /\ Fairness

\* The manager with a sink whose Publish succeeds, or one whose Publish fails.
InitSink ==
    /\ executors = DefaultExecutors
    /\ registered = DefaultRegistrations
    /\ sinkUp \in BOOLEAN
    /\ server = NoServer
    /\ maxConcurrent = MaxConcurrent
    /\ InitManager

SinkSpec == InitSink /\ [][Next]_vars

\* The manager with callers that also list the tasks.
NextList ==
    \/ Next
    \/ \E c \in Callers : ListTasks(c)

ListSpec == Init /\ [][NextList]_vars

\* A manager with room for one more execution sequence, at the moment its first
\* CreateTask has stored the task and not yet published; calls counts the calls
\* begun after that one. The callers go on to execute and cancel.
InitRace ==
    /\ executors = DefaultExecutors
    /\ registered = DefaultRegistrations
    /\ sinkUp = TRUE
    /\ server = NoServer
    /\ maxConcurrent = MaxConcurrent + 1
    /\ listed = << >>
    /\ mu = ""
    /\ stamp = [t \in Threads |-> NilTime]
    /\ sleeper = NoSleeper
    /\ \E r \in Requests :
          /\ r.type \in DOMAIN executors
          /\ tasks = <<NewTask(r.type, r.input, r.async, 0)>>
    /\ semaphore = 0
    /\ events = << >>
    /\ now = 0
    /\ calls = 0
    /\ pc = [t \in Threads |-> IF t = "c1" THEN "create_publish"
                               ELSE IF t \in Callers THEN "idle" ELSE "unspawned"]
    /\ cur = [t \in Threads |-> IF t = "c1" THEN 1 ELSE 0]
    /\ startTime = [t \in Threads |-> NilTime]
    /\ err = [t \in Threads |-> NoErr]
    /\ duration = [t \in Threads |-> NilTime]
    /\ ctxDone = [t \in Threads |-> FALSE]
    /\ ret = NoRet

NextRace ==
    \/ \E c \in Callers : PublishTaskCreated(c)
    \/ \E c \in Callers, id \in TaskIds : ExecuteTask(c, id)
    \/ \E c \in Callers : CancelContext(c)
    \/ \E t \in Threads : AcquireSemaphore(t)
    \/ \E c \in Callers : AcquireCancelled(c)
    \/ \E c \in Callers, id \in TaskIds : ExecuteTaskAsync(c, id)
    \/ \E t \in Threads : InvokeExecutor(t)
    \/ \E t \in Threads : FinishTask(t)
    \/ \E t \in Threads : ReleaseSemaphore(t)
    \/ \E c \in Callers, id \in TaskIds : CancelTask(c, id)
    \/ \E c \in Callers : CancelStatus(c)

RaceSpec == InitRace /\ [][NextRace]_vars

\* ------------------------------------------------------------ the executors
\* The inputs the executors are called with: each key absent, of the wrong type,
\* a Go int (what a Go caller's literal 10 is), or a float64 (what JSON decodes to).
MathInputs ==
    { MkInput(op, a, b, None, None) :
        op \in {None, Num(123), Str("add"), Str("subtract"), Str("multiply"),
                Str("divide"), Str("invalid")},
        a \in {None, Str("invalid"), GoInt(10), Num(10)},
        b \in {None, Str("invalid"), GoInt(0), Num(0), Num(5)} }

SleepDurations ==
    {None, Str("invalid"), GoInt(1), Num(0), Num(1), Num(2), Frac(0, 1), Frac(1, 5)}

SleepInputs == { MkInput(None, None, None, d, None) : d \in SleepDurations }

ErrorInputs ==
    { MkInput(None, None, None, None, m) : m \in {None, Num(123), Str("custom error")} }

ExecutorInputs == MathInputs \cup SleepInputs \cup ErrorInputs

\* A task of any built-in type with any of the inputs, created and started by an
\* ExecuteTask call that is about to invoke the executor, its context cancelled or not.
InitExecutor ==
    /\ executors = DefaultExecutors
    /\ registered = DefaultRegistrations
    /\ sinkUp = TRUE
    /\ server = NoServer
    /\ maxConcurrent = MaxConcurrent
    /\ listed = << >>
    /\ mu = ""
    /\ stamp = [t \in Threads |-> NilTime]
    /\ sleeper = NoSleeper
    /\ \E type \in DOMAIN DefaultExecutors, input \in ExecutorInputs :
          /\ tasks = <<Start(NewTask(type, input, FALSE, 0), 0)>>
          /\ events = << [NewEvent(EventTypeTaskCreated, 1) EXCEPT !.task_type = type],
                         NewEvent(EventTypeTaskStarted, 1) >>
    /\ semaphore = 1
    /\ now = 0
    /\ calls = 2
    /\ pc = [t \in Threads |-> IF t = "c1" THEN "invoke"
                               ELSE IF t \in Callers THEN "idle" ELSE "unspawned"]
    /\ cur = [t \in Threads |-> IF t = "c1" THEN 1 ELSE 0]
    /\ startTime = [t \in Threads |-> IF t = "c1" THEN 0 ELSE NilTime]
    /\ err = [t \in Threads |-> NoErr]
    /\ duration = [t \in Threads |-> NilTime]
    /\ ctxDone \in {[t \in Threads |-> t = "c1" /\ done] : done \in BOOLEAN}
    /\ ret = [caller |-> "c1", op |-> "CreateTask", id |-> 1, err |-> NoErr]

NextExecutor ==
    \/ \E t \in Threads : InvokeExecutor(t)
    \/ \E t \in Threads : FinishTask(t)
    \/ \E t \in Threads : ReleaseSemaphore(t)

ExecutorSpec == InitExecutor /\ [][NextExecutor]_vars

\* -------------------------------------------------- the sleep executor in time
\* Time in the sleep executor is counted in tenths of a second.
TenthsPerSecond == 10

\* A float64 number of seconds, in tenths.
Tenths(d) == d.n * TenthsPerSecond + d.f

\* sleepDuration := time.Duration(duration) * time.Second: the conversion of the
\* float64 to the integer type Duration drops its fraction, and the whole number
\* left is then taken as seconds.
SleepDuration(d) == d.n * TenthsPerSecond

managerVars == <<executors, registered, sinkUp, server, maxConcurrent, listed, mu, stamp, tasks, semaphore, events,
                 now, calls, pc, cur, startTime, err, duration, ctxDone, ret>>

\* Execute up to the select: the type assertion and the conversion.
SleepEnter ==
    /\ sleeper.phase = "call"
    /\ IF sleeper.input.duration.t # "num"
       THEN \E r \in SleepExecute(sleeper.input, sleeper.ctxDone) :
               sleeper' = [sleeper EXCEPT !.phase = "returned", !.err = r.err]
       ELSE sleeper' = [sleeper EXCEPT !.phase = "select",
                                       !.timer = SleepDuration(sleeper.input.duration)]
    /\ UNCHANGED managerVars

\* case <-ctx.Done(): return ctx.Err()
SleepCtxDone ==
    /\ sleeper.phase = "select"
    /\ sleeper.ctxDone
    /\ \E r \in SleepExecute(sleeper.input, TRUE) :
          /\ r.err = ContextCanceled
          /\ sleeper' = [sleeper EXCEPT !.phase = "returned", !.err = r.err]
    /\ UNCHANGED managerVars

\* case <-time.After(sleepDuration): the timer has fired; task.Output is assigned.
SleepTimerFired ==
    /\ sleeper.phase = "select"
    /\ sleeper.elapsed >= sleeper.timer
    /\ \E r \in SleepExecute(sleeper.input, sleeper.ctxDone) :
          /\ r.err = NoErr
          /\ sleeper' = [sleeper EXCEPT !.phase = "returned", !.err = r.err,
                                          !.output = r.output]
    /\ UNCHANGED managerVars

\* A tenth of a second passes with the select blocked: neither case is ready.
SleepTick ==
    /\ sleeper.phase = "select"
    /\ ~sleeper.ctxDone
    /\ sleeper.elapsed < sleeper.timer
    /\ sleeper' = [sleeper EXCEPT !.elapsed = @ + 1]
    /\ UNCHANGED managerVars

\* The caller cancels the context while Execute is in the select.
SleepCancel ==
    /\ sleeper.phase = "select"
    /\ ~sleeper.ctxDone
    /\ sleeper' = [sleeper EXCEPT !.ctxDone = TRUE, !.cancelledAt = sleeper.elapsed]
    /\ UNCHANGED managerVars

\* Execute is called with any of the durations, on a context that is already
\* cancelled (at tenth 0) or not yet.
InitSleep ==
    /\ executors = DefaultExecutors
    /\ registered = DefaultRegistrations
    /\ sinkUp = TRUE
    /\ server = NoServer
    /\ maxConcurrent = MaxConcurrent
    /\ listed = << >>
    /\ mu = ""
    /\ stamp = [t \in Threads |-> NilTime]
    /\ sleeper \in { [NoSleeper EXCEPT !.phase = "call", !.input = input, !.ctxDone = done,
                                        !.cancelledAt = IF done THEN 0 ELSE NilTime] :
                        input \in SleepInputs, done \in BOOLEAN }
    /\ tasks = << >>
    /\ semaphore = 0
    /\ events = << >>
    /\ now = 0
    /\ calls = 0
    /\ pc = [t \in Threads |-> IF t \in Callers THEN "idle" ELSE "unspawned"]
    /\ cur = [t \in Threads |-> 0]
    /\ startTime = [t \in Threads |-> NilTime]
    /\ err = [t \in Threads |-> NoErr]
    /\ duration = [t \in Threads |-> NilTime]
    /\ ctxDone = [t \in Threads |-> FALSE]
    /\ ret = NoRet

NextSleep ==
    \/ SleepEnter
    \/ SleepCtxDone
    \/ SleepTimerFired
    \/ SleepTick
    \/ SleepCancel

SleepSpec == InitSleep /\ [][NextSleep]_vars

\* ------------------------------------------- the transitions field by field
\* Complete, Fail and Cancel are called with no lock held and write the fields of
\* the task one after another: the status first.  A reader that holds the task
\* (GetTask and ListTasks hand out the pointer) reads its fields between the writes.
\* Complete and Fail, lines 496-497 and 509-510: now := time.Now(); t.Status = ...
WriteTerminalStatus(t) ==
    /\ pc[t] = "finish"
    /\ \E at \in Clock :
          /\ now' = at
          /\ stamp' = [stamp EXCEPT ![t] = at]
    /\ tasks' = [tasks EXCEPT ![cur[t]].status =
                    IF err[t] # NoErr THEN TaskStatusFailed ELSE TaskStatusCompleted]
    /\ pc' = [pc EXCEPT ![t] = "finish_fields"]
    /\ UNCHANGED <<executors, registered, sinkUp, server, maxConcurrent, listed, sleeper, mu,
                   semaphore, events, calls, cur, locals, ctxDone, ret>>

\* The rest of Complete and Fail, lines 498-504 and 511-517, and the publish.
WriteTerminalFields(t) ==
    /\ pc[t] = "finish_fields"
    /\ \E at \in Clock :
          LET d == IF duration[t] = NilTime THEN at - startTime[t] ELSE duration[t]
              task == tasks[cur[t]]
          IN  /\ now' = at
              /\ IF err[t] # NoErr
                 THEN /\ tasks' = [tasks EXCEPT ![cur[t]] =
                                      [Fail(task, err[t], stamp[t])
                                         EXCEPT !.status = task.status]]
                      /\ Publish([NewEvent(EventTypeTaskFailed, cur[t])
                                    EXCEPT !.duration_ms = Milliseconds(d),
                                           !.error = err[t]])
                 ELSE /\ tasks' = [tasks EXCEPT ![cur[t]] =
                                      [Complete(task, task.output, stamp[t])
                                         EXCEPT !.status = task.status]]
                      /\ Publish([NewEvent(EventTypeTaskCompleted, cur[t])
                                    EXCEPT !.duration_ms = Milliseconds(d),
                                           !.result = task.output])
    /\ stamp' = [stamp EXCEPT ![t] = NilTime]
    /\ pc' = [pc EXCEPT ![t] = "release"]
    /\ UNCHANGED <<executors, registered, sinkUp, server, maxConcurrent, listed, sleeper, mu,
                   semaphore, calls, cur, locals, ctxDone, ret>>

\* Cancel, lines 522-523: now := time.Now(); t.Status = TaskStatusCancelled
WriteCancelStatus(c) ==
    /\ pc[c] = "cancel"
    /\ \E at \in Clock :
          /\ now' = at
          /\ stamp' = [stamp EXCEPT ![c] = at]
    /\ tasks' = [tasks EXCEPT ![cur[c]].status = TaskStatusCancelled]
    /\ pc' = [pc EXCEPT ![c] = "cancel_fields"]
    /\ UNCHANGED <<executors, registered, sinkUp, server, maxConcurrent, listed, sleeper, mu,
                   semaphore, events, calls, cur, locals, ctxDone, ret>>

\* The rest of Cancel, lines 524-529, the publish and the return of CancelTask.
WriteCancelFields(c) ==
    /\ pc[c] = "cancel_fields"
    /\ tasks' = [tasks EXCEPT ![cur[c]] =
                    [Cancel(@, stamp[c]) EXCEPT !.status = tasks[cur[c]].status]]
    /\ Publish(NewEvent(EventTypeTaskCancelled, cur[c]))
    /\ Return(c, "CancelTask", cur[c], NoErr)
    /\ cur' = [cur EXCEPT ![c] = 0]
    /\ stamp' = [stamp EXCEPT ![c] = NilTime]
    /\ UNCHANGED <<executors, registered, sinkUp, server, maxConcurrent, listed, sleeper, mu,
                   semaphore, now, calls, locals, ctxDone>>

NextFields ==
    \/ \E c \in Callers, r \in Requests : CreateTask(c, r.type, r.input, r.async)
    \/ \E c \in Callers : PublishTaskCreated(c)
    \/ \E c \in Callers, id \in TaskIds : ExecuteTask(c, id)
    \/ \E c \in Callers : CancelContext(c)
    \/ \E t \in Threads : AcquireSemaphore(t)
    \/ \E c \in Callers : AcquireCancelled(c)
    \/ \E c \in Callers, id \in TaskIds : ExecuteTaskAsync(c, id)
    \/ \E t \in Threads : InvokeExecutor(t)
    \/ \E t \in Threads : WriteTerminalStatus(t)
    \/ \E t \in Threads : WriteTerminalFields(t)
    \/ \E t \in Threads : ReleaseSemaphore(t)
    \/ \E c \in Callers, id \in TaskIds : CancelTask(c, id)
    \/ \E c \in Callers : WriteCancelStatus(c)
    \/ \E c \in Callers : WriteCancelFields(c)

FieldSpec == Init /\ [][NextFields]_vars

\* A manager whose slots are all held by executions that are under way: a sleep
\* task has been created and the goroutine of its ExecuteTaskAsync is in the
\* executor.  calls counts the calls begun after those two.
InitBusy ==
    /\ executors = DefaultExecutors
    /\ registered = DefaultRegistrations
    /\ sinkUp = TRUE
    /\ server = NoServer
    /\ maxConcurrent = MaxConcurrent
    /\ listed = << >>
    /\ mu = ""
    /\ stamp = [t \in Threads |-> NilTime]
    /\ sleeper = NoSleeper
    /\ \E r \in Requests :
          /\ r.type = "sleep"
          /\ tasks = <<Start(NewTask(r.type, r.input, r.async, 0), 0)>>
          /\ events = << [NewEvent(EventTypeTaskCreated, 1)
                            EXCEPT !.task_type = r.type, !.is_async = r.async],
                         NewEvent(EventTypeTaskStarted, 1) >>
    /\ semaphore = maxConcurrent
    /\ now = 0
    /\ calls = 0
    /\ pc = [t \in Threads |-> IF t = "g1" THEN "invoke"
                               ELSE IF t \in Callers THEN "idle" ELSE "unspawned"]
    /\ cur = [t \in Threads |-> IF t = "g1" THEN 1 ELSE 0]
    /\ startTime = [t \in Threads |-> IF t = "g1" THEN 0 ELSE NilTime]
    /\ err = [t \in Threads |-> NoErr]
    /\ duration = [t \in Threads |-> NilTime]
    /\ ctxDone = [t \in Threads |-> FALSE]
    /\ ret = [caller |-> "c1", op |-> "ExecuteTaskAsync", id |-> 1, err |-> NoErr]

BusySpec == InitBusy /\ [][NextList]_vars

\* A registry from NewExecutorRegistry on, under Register calls.
InitRegistry ==
    /\ executors = << >>
    /\ registered = << >>
    /\ sinkUp = TRUE
    /\ server = NoServer
    /\ maxConcurrent = MaxConcurrent
    /\ InitManager

NextRegistry ==
    \/ \E k \in RegistryKinds, e \in RegistryExecutors : Register(k, e)
    \/ RegisterDefaultExecutors

RegistrySpec == InitRegistry /\ [][NextRegistry]_vars

\* ------------------------------------------------------- the server's stop
\* Start, lines 84-93: s.httpServer is assigned and ListenAndServe accepts requests.
ServerStart ==
    /\ server.httpServer = "nil"
    /\ server' = [server EXCEPT !.httpServer = "serving"]
    /\ UNCHANGED <<executors, registered, sinkUp, maxConcurrent, listed, sleeper, mu, stamp,
                   tasks, semaphore, events, now, calls, pc, cur, locals, ctxDone, ret>>

\* Stop, lines 102-109: return nil when httpServer is nil; otherwise
\* s.eventPub.Close(), whatever the manager is doing.
ServerStop ==
    /\ server.stop = ""
    /\ server' = IF server.httpServer = "nil"
                 THEN [server EXCEPT !.stop = "returned"]
                 ELSE [server EXCEPT !.closed = TRUE, !.stop = "closing"]
    /\ UNCHANGED <<executors, registered, sinkUp, maxConcurrent, listed, sleeper, mu, stamp,
                   tasks, semaphore, events, now, calls, pc, cur, locals, ctxDone, ret>>

ShutdownFailed == "failed to shutdown server: context deadline exceeded"

\* Stop, lines 111-116: s.httpServer.Shutdown(ctx) stops accepting requests and
\* waits for the handlers at work, until ctx expires.  It knows nothing of the
\* goroutines ExecuteTaskAsync started.
ServerShutdown ==
    /\ server.stop = "closing"
    /\ \E e \in {NoErr, ShutdownFailed} :
          /\ e = NoErr => \A c \in Callers : pc[c] = "idle"
          /\ e = ShutdownFailed => \E c \in Callers : pc[c] # "idle"
          /\ server' = [server EXCEPT !.httpServer = "shutdown", !.stop = "returned",
                                      !.err = e]
    /\ UNCHANGED <<executors, registered, sinkUp, maxConcurrent, listed, sleeper, mu, stamp,
                   tasks, semaphore, events, now, calls, pc, cur, locals, ctxDone, ret>>

\* The handlers call the manager while the server accepts requests.
Serving == server.httpServer = "serving"

NextStop ==
    \/ ServerStart
    \/ ServerStop
    \/ ServerShutdown
    \/ Serving /\ \E c \in Callers, r \in Requests : CreateTask(c, r.type, r.input, r.async)
    \/ Serving /\ \E c \in Callers, id \in TaskIds : ExecuteTask(c, id)
    \/ Serving /\ \E c \in Callers, id \in TaskIds : ExecuteTaskAsync(c, id)
    \/ Serving /\ \E c \in Callers, id \in TaskIds : CancelTask(c, id)
    \/ \E c \in Callers : PublishTaskCreated(c)
    \/ \E c \in Callers : CancelContext(c)
    \/ \E t \in Threads : AcquireSemaphore(t)
    \/ \E c \in Callers : AcquireCancelled(c)
    \/ \E t \in Threads : InvokeExecutor(t)
    \/ \E t \in Threads : FinishTask(t)
    \/ \E t \in Threads : ReleaseSemaphore(t)
    \/ \E c \in Callers : CancelStatus(c)

StopSpec == Init /\ [][NextStop]_vars

\* The server's manager while Register is called on the registry it was given:
\* the registry is shared, and a kind may be added or given another executor at
\* any point of a call or of an execution sequence.
ResolveKinds == {"invalid"}

NextResolve ==
    \/ Next
    \/ \E k \in ResolveKinds, e \in RegistryExecutors : Register(k, e)

ResolveSpec == Init /\ [][NextResolve]_vars

\* =================================================================== claims
TerminalStatuses == {TaskStatusCompleted, TaskStatusFailed, TaskStatusCancelled}

\* The threads between acquiring a slot and releasing it.
InProgress == {t \in Threads : pc[t] \in {"invoke", "finish", "release"}}

TerminalEventTypes ==
    {EventTypeTaskCompleted, EventTypeTaskFailed, EventTypeTaskCancelled}

EventsOf(id, types) ==
    {i \in 1 .. Len(events) : events[i].task_id = id /\ events[i].type \in types}

\* C1: at most maxConcurrent execution sequences are in progress at any time,
\* whatever the tasks and whichever of ExecuteTask and ExecuteTaskAsync began them.
C1_BoundedConcurrency == Cardinality(InProgress) <= MaxConcurrent

\* The bound is met while a further execution waits for a slot.
C1_Witness ==
    /\ Cardinality(InProgress) = MaxConcurrent
    /\ \E c \in Callers : pc[c] = "acquire"
    /\ \E g \in Goroutines : pc[g] = "acquire" \/ g \in InProgress

\* C2 (as claimed): a status that is completed, failed or cancelled never changes.
C2_TerminalIsFinal ==
    [][\A id \in DOMAIN tasks :
          tasks[id].status \in TerminalStatuses => tasks'[id].status = tasks[id].status]_vars

\* C3 (as claimed): at most one of task.completed, task.failed and task.cancelled
\* is ever published for a task.
C3_OneTerminalEvent ==
    \A id \in DOMAIN tasks : Cardinality(EventsOf(id, TerminalEventTypes)) <= 1

\* C4 (as claimed): a completed task has output and no error, a failed task has
\* an error and no output, and no task has both.
C4_OutputXorError ==
    \A id \in DOMAIN tasks :
        LET task == tasks[id]
        IN  /\ task.status = TaskStatusCompleted => ~task.output.isNil /\ task.error = ""
            /\ task.status = TaskStatusFailed => task.error # "" /\ task.output.isNil
            /\ ~(~task.output.isNil /\ task.error # "")

\* C5: ExecuteTask, ExecuteTaskAsync and CancelTask on a task that is completed,
\* failed or cancelled return the already-finished error, and that call leaves
\* the task records, the semaphore, the events and every thread where they were.
C5_AlreadyFinished ==
    [][\A c \in Callers, id \in TaskIds :
          /\ id \in DOMAIN tasks
          /\ tasks[id].status \in TerminalStatuses
          /\ ExecuteTask(c, id) \/ ExecuteTaskAsync(c, id) \/ CancelTask(c, id)
          => /\ ret'.caller = c /\ ret'.id = id
             /\ ret'.err = "task " \o ToString(id) \o " is already finished"
             /\ UNCHANGED <<tasks, semaphore, events, pc>>]_vars

C5_Witness ==
    /\ ret.op \in {"ExecuteTask", "ExecuteTaskAsync", "CancelTask"}
    /\ ret.id \in DOMAIN tasks
    /\ tasks[ret.id].status \in TerminalStatuses
    /\ ret.err = "task " \o ToString(ret.id) \o " is already finished"

\* C6: CreateTask with a type no executor is registered for returns the not-found
\* error, stores nothing and publishes nothing.
C6_CreateUnknownType ==
    [][\A c \in Callers, r \in Requests :
          /\ r.type \notin DOMAIN executors
          /\ CreateTask(c, r.type, r.input, r.async)
          => /\ ret' = [caller |-> c, op |-> "CreateTask", id |-> 0,
                        err |-> "no executor found for task type: " \o r.type]
             /\ UNCHANGED <<tasks, events, pc>>]_vars

C6_Witness ==
    /\ ret.op = "CreateTask"
    /\ ret.err = "no executor found for task type: invalid"
    /\ tasks = << >> /\ events = << >>

\* C7 (as claimed): the task CreateTask returns is in status pending.
C7_ReturnedPending ==
    [][\A c \in Callers :
          pc[c] = "create_publish" /\ pc'[c] = "idle"
          => tasks'[cur[c]].status = TaskStatusPending]_vars

\* C7 (amended): CreateTask with a registered type stores, under a fresh id, a
\* pending task with the given type, input and hint and nothing else set; type,
\* input and hint never change; it returns that id, which GetTask finds, and
\* publishes the one task.created event the task ever gets.
C7_CreateTask ==
    /\ [][\A c \in Callers, r \in Requests :
            /\ r.type \in DOMAIN executors
            /\ CreateTask(c, r.type, r.input, r.async)
            => \E t \in Times :
                 tasks' = Append(tasks,
                     [type |-> r.type, status |-> TaskStatusPending, input |-> r.input,
                      output |-> NilOutput, error |-> "", createdAt |-> t,
                      startedAt |-> NilTime, completedAt |-> NilTime,
                      duration |-> NilTime, isAsync |-> r.async])]_vars
    /\ [][\A id \in DOMAIN tasks :
            /\ id \in DOMAIN tasks'
            /\ tasks'[id].type = tasks[id].type
            /\ tasks'[id].input = tasks[id].input
            /\ tasks'[id].isAsync = tasks[id].isAsync]_vars
    /\ [][\A c \in Callers :
            pc[c] = "create_publish" /\ pc'[c] = "idle"
            => /\ ret' = [caller |-> c, op |-> "CreateTask", id |-> cur[c], err |-> NoErr]
               /\ cur[c] \in DOMAIN tasks'
               /\ tasks' = tasks
               /\ events' = Append(events,
                     [type |-> "task.created", task_id |-> cur[c],
                      task_type |-> tasks[cur[c]].type, is_async |-> tasks[cur[c]].isAsync,
                      duration_ms |-> NilTime, error |-> "", result |-> NilOutput])]_vars
    /\ [](\A id \in DOMAIN tasks :
            Cardinality(EventsOf(id, {EventTypeTaskCreated})) =
                IF \E c \in Callers : pc[c] = "create_publish" /\ cur[c] = id
                THEN 0 ELSE 1)

C7_Witness ==
    /\ ret.op = "CreateTask" /\ ret.err = NoErr
    /\ ret.id \in DOMAIN tasks
    /\ tasks[ret.id].isAsync
    /\ tasks[ret.id].status = TaskStatusPending
    /\ Cardinality(EventsOf(ret.id, {EventTypeTaskCreated})) = 1

\* C8 (as claimed): when ExecuteTask returns nil, the task it ran is completed and
\* has its output.
C8_NilMeansCompleted ==
    [][\A c \in Callers :
          pc[c] = "release" /\ pc'[c] = "idle" /\ ret'.err = NoErr
          => /\ tasks'[ret'.id].status = TaskStatusCompleted
             /\ ~tasks'[ret'.id].output.isNil]_vars

\* C9 (as claimed): when the executor fails, ExecuteTask returns the executor's
\* error, a task.failed event carrying it has been published, and the task is
\* failed with that error.
C9_FailureMeansFailed ==
    [][\A c \in Callers :
          pc[c] = "release" /\ pc'[c] = "idle" /\ err[c] # NoErr
          => /\ ret'.err = err[c]
             /\ \E i \in EventsOf(ret'.id, {EventTypeTaskFailed}) : events[i].error = err[c]
             /\ tasks'[ret'.id].status = TaskStatusFailed
             /\ tasks'[ret'.id].error = err[c]]_vars

\* C10: a caller of ExecuteTask that is waiting for a slot with every slot taken
\* and its context cancelled can only return the cancellation error; that step
\* changes no task record, publishes nothing and leaves the semaphore as it was.
C10_CancelledWhileWaiting ==
    [][\A c \in Callers :
          /\ pc[c] = "acquire" /\ ctxDone[c] /\ semaphore = MaxConcurrent
          /\ pc'[c] # pc[c]
          => /\ pc'[c] = "idle"
             /\ ret' = [caller |-> c, op |-> "ExecuteTask", id |-> cur[c],
                        err |-> "context canceled"]
             /\ UNCHANGED <<tasks, events, semaphore>>
             /\ cur[c] \in DOMAIN tasks']_vars

\* The cancelled call never ran: the task carries no error and the slots are
\* still all taken by others.
C10_Witness ==
    /\ ret.op = "ExecuteTask" /\ ret.err = "context canceled"
    /\ ret.id \in DOMAIN tasks
    /\ tasks[ret.id].error = ""
    /\ pc[ret.caller] = "idle"
    /\ semaphore = MaxConcurrent

\* C11: ExecuteTaskAsync can always be called and returns in that one step,
\* whatever the semaphore holds; what it returns is decided by the existence and
\* already-finished checks alone, it touches no task, slot or event, and no later
\* step of the scheduled goroutine reaches a caller.
C11_AsyncNeverBlocks ==
    /\ [](\A c \in Callers, id \in TaskIds :
            /\ Idle(c) /\ calls < MaxCalls
            /\ \E g \in Goroutines : pc[g] = "unspawned"
            => ENABLED ExecuteTaskAsync(c, id))
    /\ [][\A c \in Callers, id \in TaskIds :
            ExecuteTaskAsync(c, id)
            => /\ pc'[c] = "idle"
               /\ ret' = [caller |-> c, op |-> "ExecuteTaskAsync", id |-> id,
                          err |-> IF id \notin DOMAIN tasks
                                  THEN "task not found: " \o ToString(id)
                                  ELSE IF tasks[id].status \in TerminalStatuses
                                  THEN "task " \o ToString(id) \o " is already finished"
                                  ELSE NoErr]
               /\ UNCHANGED <<tasks, semaphore, events>>]_vars
    /\ [][\A g \in Goroutines :
            pc[g] # "unspawned" /\ pc'[g] # pc[g] => ret' = ret]_vars

\* ExecuteTaskAsync has returned nil with every slot held, and its goroutine waits.
C11_Witness ==
    /\ ret.op = "ExecuteTaskAsync" /\ ret.err = NoErr
    /\ semaphore = MaxConcurrent
    /\ \E g \in Goroutines : pc[g] = "acquire" /\ cur[g] = ret.id
    /\ \E c \in Callers : c # ret.caller /\ c \in InProgress

C13_AsyncRunsToEnd ==
    /\ \A g \in Goroutines :
          (pc[g] = "acquire")
             ~> (pc[g] = "release" /\ tasks[cur[g]].status \in TerminalStatuses)
    /\ \A g \in Goroutines : (pc[g] = "release") ~> (pc[g] = "exited")
    /\ [](semaphore = Cardinality(InProgress))

\* Two scheduled executions have both run to their end and no slot is held.
C13_Witness ==
    /\ \A g \in Goroutines : pc[g] = "exited"
    /\ semaphore = 0
    /\ \A id \in DOMAIN tasks : tasks[id].status \in TerminalStatuses
    /\ Cardinality(EventsOf(1, TerminalEventTypes)) = Cardinality(Goroutines)

\* C14: the goroutine of ExecuteTaskAsync runs under a context that is never
\* cancelled; while it waits it can take a slot as soon as one is free, whatever has
\* become of its task, and its only way on is to take the slot and then to invoke
\* the executor on that task.
C14_AsyncCannotBeCalledOff ==
    /\ [](\A g \in Goroutines :
            /\ ~ctxDone[g]
            /\ pc[g] = "acquire" /\ semaphore < MaxConcurrent => ENABLED AcquireSemaphore(g)
            /\ pc[g] = "invoke" => ENABLED InvokeExecutor(g))
    /\ [][\A g \in Goroutines :
            pc[g] = "acquire" /\ pc'[g] # pc[g]
            => /\ pc'[g] = "invoke" /\ cur'[g] = cur[g]
               /\ semaphore' = semaphore + 1]_vars
    /\ [][\A g \in Goroutines :
            pc[g] = "invoke" /\ pc'[g] # pc[g]
            => /\ pc'[g] = "finish" /\ cur'[g] = cur[g]
               /\ LET task == tasks[cur[g]]
                  IN  \E r \in Execute(executors[task.type], task.input, FALSE) :
                         err'[g] = r.err]_vars

\* The task was cancelled before its goroutine got a slot, and the executor has
\* run on it all the same.
C14_Witness ==
    \E g \in Goroutines :
        /\ pc[g] = "finish" /\ err[g] = NoErr
        /\ Cardinality(EventsOf(cur[g], {EventTypeTaskStarted})) = 1
        /\ \E i \in EventsOf(cur[g], {EventTypeTaskCancelled}),
              j \in EventsOf(cur[g], {EventTypeTaskStarted}) : i < j

\* C15: CancelTask on an id that is not stored returns the not-found error and
\* changes nothing.  On a pending or running task it goes on to cancel it: the
\* status becomes cancelled, completedAt is the time of the call, the duration is
\* set (to completedAt - startedAt) exactly when startedAt was set, every other
\* field and every other task stays as it was, one task.cancelled event for the
\* task is published, and the call returns nil.
C15_CancelTask ==
    /\ [][\A c \in Callers, id \in TaskIds :
            id \notin DOMAIN tasks /\ CancelTask(c, id)
            => /\ ret' = [caller |-> c, op |-> "CancelTask", id |-> id,
                          err |-> "task not found: " \o ToString(id)]
               /\ UNCHANGED <<tasks, events, semaphore, pc>>]_vars
    /\ [][\A c \in Callers, id \in DOMAIN tasks :
            /\ tasks[id].status \in {TaskStatusPending, TaskStatusRunning}
            /\ CancelTask(c, id)
            => /\ pc'[c] = "cancel" /\ cur'[c] = id
               /\ UNCHANGED <<tasks, events, semaphore, ret>>]_vars
    /\ [][\A c \in Callers :
            pc[c] = "cancel" /\ pc'[c] # pc[c]
            => LET id == cur[c]
                   old == tasks[id]
                   new == tasks'[id]
               IN  /\ new.status = TaskStatusCancelled
                   /\ new.completedAt \in Times /\ new.completedAt >= now
                   /\ (new.duration # NilTime) <=> (old.startedAt # NilTime)
                   /\ new.duration # NilTime
                        => new.duration = new.completedAt - new.startedAt
                   /\ new = [old EXCEPT !.status = new.status,
                                        !.completedAt = new.completedAt,
                                        !.duration = new.duration]
                   /\ \A other \in DOMAIN tasks \ {id} : tasks'[other] = tasks[other]
                   /\ DOMAIN tasks' = DOMAIN tasks
                   /\ events' = Append(events,
                         [type |-> "task.cancelled", task_id |-> id, task_type |-> "",
                          is_async |-> FALSE, duration_ms |-> NilTime, error |-> "",
                          result |-> NilOutput])
                   /\ ret' = [caller |-> c, op |-> "CancelTask", id |-> id, err |-> NoErr]
                   /\ pc'[c] = "idle"]_vars

\* A task cancelled while running: started, stopped and timed.
C15_Witness ==
    /\ ret.op = "CancelTask" /\ ret.err = NoErr
    /\ tasks[ret.id].status = TaskStatusCancelled
    /\ tasks[ret.id].startedAt # NilTime
    /\ tasks[ret.id].duration = tasks[ret.id].completedAt - tasks[ret.id].startedAt
    /\ Cardinality(EventsOf(ret.id, {EventTypeTaskCancelled})) = 1

\* C16: the slots taken are exactly those of the executions in progress; the
\* step in which CancelTask cancels a task leaves the semaphore and every other
\* thread, with its locals and its context, as they were; a thread that has
\* started the executor can always go on; and a slot is given back only by the
\* executing thread itself, after its executor has returned.
C16_CancelKeepsSlot ==
    /\ [](/\ semaphore = Cardinality(InProgress)
          /\ \A t \in Threads : pc[t] = "invoke" => ENABLED InvokeExecutor(t))
    /\ [][\A c \in Callers :
            pc[c] = "cancel" /\ pc'[c] # pc[c]
            => /\ semaphore' = semaphore
               /\ \A t \in Threads \ {c} : pc'[t] = pc[t] /\ cur'[t] = cur[t]
               /\ UNCHANGED <<locals, ctxDone>>]_vars
    /\ [][semaphore' # semaphore /\ semaphore' # semaphore + 1
          => /\ semaphore' = semaphore - 1
             /\ \E t \in Threads :
                   pc[t] = "release" /\ pc'[t] \in {"idle", "exited"}]_vars

\* CancelTask has returned nil for a task whose executor is still running, and
\* every slot is still held.
C16_Witness ==
    /\ ret.op = "CancelTask" /\ ret.err = NoErr
    /\ tasks[ret.id].status = TaskStatusCancelled
    /\ \E t \in Threads : pc[t] = "invoke" /\ cur[t] = ret.id
    /\ semaphore = MaxConcurrent

\* C17 (as claimed): a duration that is present equals completedAt - startedAt and
\* is not negative, and a task in a terminal status has a duration exactly when it
\* has a startedAt.
C17_DurationIsSpan ==
    \A id \in DOMAIN tasks :
        LET task == tasks[id]
        IN  /\ task.duration # NilTime
                 => /\ task.duration = task.completedAt - task.startedAt
                    /\ task.duration >= 0
            /\ task.status \in TerminalStatuses
                 => ((task.duration # NilTime) <=> (task.startedAt # NilTime))

\* C18: whether the sink's Publish succeeds or fails, no call ever returns the
\* sink's error and no execution carries it; CreateTask returns the stored task and
\* nil; an execution that gets a slot sets the task running; when the executor has
\* returned the task is failed or completed as the executor decided, and ExecuteTask
\* returns the executor's error; CancelTask sets the task cancelled and returns nil.
C18_PublishFailureIgnored ==
    /\ [](/\ ret.err # PublishFailed
          /\ \A t \in Threads : err[t] # PublishFailed
          /\ \A c \in Callers : pc[c] = "create_publish" => ENABLED PublishTaskCreated(c)
          /\ \A c \in Callers : pc[c] = "cancel" => ENABLED CancelStatus(c)
          /\ \A t \in Threads : pc[t] = "finish" => ENABLED FinishTask(t))
    /\ [][\A c \in Callers :
            pc[c] = "create_publish" /\ pc'[c] # pc[c]
            => /\ ret' = [caller |-> c, op |-> "CreateTask", id |-> cur[c], err |-> NoErr]
               /\ cur[c] \in DOMAIN tasks' /\ tasks' = tasks]_vars
    /\ [][\A t \in Threads :
            pc[t] = "acquire" /\ pc'[t] = "invoke"
            => tasks'[cur[t]].status = TaskStatusRunning]_vars
    /\ [][\A t \in Threads :
            pc[t] = "finish" /\ pc'[t] # pc[t]
            => /\ pc'[t] = "release" /\ err'[t] = err[t]
               /\ tasks'[cur[t]].status =
                     IF err[t] # NoErr THEN TaskStatusFailed ELSE TaskStatusCompleted]_vars
    /\ [][\A c \in Callers :
            pc[c] = "release" /\ pc'[c] # pc[c]
            => ret' = [caller |-> c, op |-> "ExecuteTask", id |-> cur[c], err |-> err[c]]]_vars
    /\ [][\A c \in Callers :
            pc[c] = "cancel" /\ pc'[c] # pc[c]
            => /\ tasks'[cur[c]].status = TaskStatusCancelled
               /\ ret' = [caller |-> c, op |-> "CancelTask", id |-> cur[c], err |-> NoErr]]_vars

\* With a failing sink, a task was created, executed and completed, every event
\* was handed to the sink, and ExecuteTask returned nil.
C18_Witness ==
    /\ ~sinkUp
    /\ ret.op = "ExecuteTask" /\ ret.err = NoErr
    /\ tasks[ret.id].status = TaskStatusCompleted
    /\ EventsOf(ret.id, {EventTypeTaskCreated}) # {}
    /\ EventsOf(ret.id, {EventTypeTaskStarted}) # {}
    /\ EventsOf(ret.id, {EventTypeTaskCompleted}) # {}

\* Every kind a lookup may name: registered by some run, or by none.
AllKinds == RegistryKinds \cup DOMAIN DefaultExecutors \cup {"unknown"}

RegisteredKinds == {registered[i].type : i \in DOMAIN registered}

\* C19: after any sequence of Register calls, GetExecutor of a kind returns the
\* executor of the latest Register of that kind, and the not-found error exactly
\* when there was none; every result of GetSupportedTypes lists the kinds
\* registered so far, each once.
C19_Registry ==
    /\ \A k \in AllKinds :
          LET at == {i \in DOMAIN registered : registered[i].type = k}
          IN  IF at = {}
              THEN GetExecutor(executors, k) =
                     [err |-> "no executor found for task type: " \o k, executor |-> ""]
              ELSE GetExecutor(executors, k) =
                     [err |-> NoErr,
                      executor |-> registered[CHOOSE i \in at : \A j \in at : j <= i].executor]
    /\ GetSupportedTypes(executors) # {}
    /\ \A s \in GetSupportedTypes(executors) :
          /\ {s[i] : i \in DOMAIN s} = RegisteredKinds
          /\ Len(s) = Cardinality(RegisteredKinds)

\* A kind registered twice with different executors, a second kind registered
\* once, a third never.
C19_Witness ==
    /\ \E i, j \in DOMAIN registered :
          /\ i < j /\ registered[i].type = "echo" /\ registered[j].type = "echo"
          /\ registered[i].executor # registered[j].executor
    /\ "math" \in RegisteredKinds
    /\ "custom" \notin RegisteredKinds

\* C20 (as claimed): on a registry that was given the default executors first, the
\* task-types endpoint returns exactly the kinds that are registered.
C20_TaskTypesAreRegistered ==
    HasDefaults => {GetTaskTypes[i] : i \in DOMAIN GetTaskTypes} = DOMAIN executors

\* A CreateTask call that stored task id has returned.
Returned(id) ==
    /\ id \in DOMAIN tasks
    /\ \A c \in Callers : ~(pc[c] = "create_publish" /\ cur[c] = id)

Found(id) == GetTask(id).err = NoErr

\* C21 (as stated): GetTask(id) fails with not-found exactly when no CreateTask has
\* returned a task with that id.
C21_NotFoundUntilReturned ==
    \A id \in TaskIds : (GetTask(id).err = TaskNotFound(id)) <=> ~Returned(id)

\* C21 (amended): GetTask(id) fails with not-found, and only so, until a CreateTask
\* stores a task under that id, which it does before it publishes and returns; from
\* then on, so also once CreateTask has returned it, GetTask(id) succeeds in every
\* later state with that task, whatever is executed or cancelled.
C21_GetTask ==
    /\ [](\A id \in TaskIds :
             /\ ~Found(id) => GetTask(id).err = TaskNotFound(id)
             /\ Returned(id) => Found(id)
             /\ calls = 0 => ~Found(id))
    /\ [][\A id \in TaskIds :
            /\ Found(id) => Found(id)'
            /\ ~Found(id) /\ Found(id)'
               => \E c \in Callers, r \in Requests :
                     /\ CreateTask(c, r.type, r.input, r.async)
                     /\ cur'[c] = id
                     /\ pc'[c] = "create_publish"]_vars

C21_Witness ==
    \E id \in TaskIds :
        /\ Returned(id)
        /\ tasks[id].status \in TerminalStatuses
        /\ ret.op \in {"ExecuteTask", "CancelTask"} /\ ret.id = id /\ ret.err = NoErr
        /\ Found(id)

\* C22: what ListTasks returned is a snapshot: every task stored at the call exactly
\* once and no other, and a task read from the returned sequence is as it was at the
\* call, whatever happened to it since.
C22_Snapshot ==
    /\ \A i, j \in 1 .. Len(listed) : listed[i].id = listed[j].id => i = j
    /\ \A i \in 1 .. Len(listed) : ListedTask(i) = listed[i].seen

\* The fields of a task that NewTask sets for good; its id is its key in tm.tasks.
Identity(task) ==
    [type |-> task.type, input |-> task.input, createdAt |-> task.createdAt,
     isAsync |-> task.isAsync]

\* C23: id, type, input, created_at and is_async of a stored task are fixed: every
\* step (a CreateTask of another task, ExecuteTask, ExecuteTaskAsync, CancelTask, the
\* executor) leaves each stored task under its id with these fields as they were,
\* and a new task is stored under an id no stored task has.
C23_IdentityFixed ==
    [][/\ \A id \in DOMAIN tasks :
            /\ id \in DOMAIN tasks'
            /\ Identity(tasks'[id]) = Identity(tasks[id])
       /\ \A id \in DOMAIN tasks' \ DOMAIN tasks :
            /\ DOMAIN tasks' = DOMAIN tasks \cup {id}
            /\ \E c \in Callers : pc'[c] = "create_publish" /\ cur'[c] = id]_vars

C23_Witness ==
    \E id \in DOMAIN tasks :
        /\ Len(tasks) = 2
        /\ tasks[id].createdAt = 0
        /\ tasks[id].startedAt = 1
        /\ tasks[id].status = TaskStatusCompleted
        /\ ~tasks[id].output.isNil
        /\ Identity(tasks[id]) =
              [type |-> "sleep", input |-> MkInput(None, None, None, Num(1), None),
               createdAt |-> 0, isAsync |-> TRUE]

\* No call and no goroutine is at work on task id.
Quiescent(id) ==
    \A t \in Threads : cur[t] = id => pc[t] \in {"idle", "unspawned", "exited"}

\* The events of task id among the first n published, by type.
EventsBefore(id, types, n) == {i \in EventsOf(id, types) : i < n}

\* Some task.cancelled event of task id was published while more execution
\* sequences of the task had started than had finished.
CancelledInProgress(id) ==
    \E j \in EventsOf(id, {EventTypeTaskCancelled}) :
        Cardinality(EventsBefore(id, {EventTypeTaskStarted}, j))
          > Cardinality(EventsBefore(id, {EventTypeTaskCompleted, EventTypeTaskFailed}, j))

\* C24: a task that CancelTask set to cancelled while an execution sequence of it
\* was in progress is not cancelled in the end, when the calls on it are over: the
\* sequence has overwritten the status with completed or failed.
C24_FinalNotCancelled ==
    \A id \in DOMAIN tasks :
        Quiescent(id) /\ CancelledInProgress(id)
        => tasks[id].status # TaskStatusCancelled

\* C25: the already-finished check turns away terminal tasks only and claims
\* nothing: an ExecuteTask or ExecuteTaskAsync on a pending or running task goes on
\* to the semaphore even while another sequence is at work on the task, and every
\* sequence in progress holds a slot of its own.
C25_GuardIsNoClaim ==
    /\ [](\A id \in DOMAIN tasks :
             Guard(id) = IF tasks[id].status \in TerminalStatuses
                         THEN AlreadyFinished(id) ELSE NoErr)
    /\ [](semaphore = Cardinality(InProgress))
    /\ [][\A c \in Callers, id \in DOMAIN tasks :
            tasks[id].status \in {TaskStatusPending, TaskStatusRunning}
            => /\ ExecuteTask(c, id) => pc'[c] = "acquire" /\ cur'[c] = id
               /\ ExecuteTaskAsync(c, id)
                  => \E g \in Goroutines :
                        pc[g] = "unspawned" /\ pc'[g] = "acquire" /\ cur'[g] = id]_vars

\* Two execution sequences of one task, each with a slot, both at the executor.
C25_Witness ==
    \E t1, t2 \in Threads :
        /\ t1 # t2
        /\ cur[t1] = cur[t2]
        /\ pc[t1] = "invoke" /\ pc[t2] = "invoke"
        /\ semaphore = 2
        /\ tasks[cur[t1]].status = TaskStatusRunning

FinishEventTypes == {EventTypeTaskCompleted, EventTypeTaskFailed}

\* The execution sequences of task id that have published task.started and have
\* not yet published their task.completed or task.failed.
Unfinished(id) == {t \in Threads : cur[t] = id /\ pc[t] \in {"invoke", "finish"}}

\* Every task.completed or task.failed of a task comes after a task.started of the
\* task that no earlier task.completed or task.failed answers.
FinishFollowsStart ==
    \A id \in DOMAIN tasks :
        \A j \in EventsOf(id, FinishEventTypes) :
            Cardinality(EventsBefore(id, {EventTypeTaskStarted}, j))
              > Cardinality(EventsBefore(id, FinishEventTypes, j))

\* C26 (as stated): task.created precedes every other event of its task, and every
\* task.completed or task.failed is preceded by a task.started of the task.
C26_LifecycleOrder ==
    /\ \A i \in 1 .. Len(events) :
          events[i].type # EventTypeTaskCreated
          => EventsBefore(events[i].task_id, {EventTypeTaskCreated}, i) # {}
    /\ FinishFollowsStart

\* C26 (amended): task.created is published once for a task, as CreateTask returns;
\* each execution sequence publishes task.started before it invokes the executor
\* and exactly one of task.completed and task.failed after it, so the started
\* events of a task outnumber its completed and failed ones by the sequences now
\* between the two, and every completed or failed event follows a started one.
C26_EventOrder ==
    /\ FinishFollowsStart
    /\ \A id \in DOMAIN tasks :
          /\ Cardinality(EventsOf(id, {EventTypeTaskCreated})) =
                (IF Returned(id) THEN 1 ELSE 0)
          /\ Cardinality(EventsOf(id, {EventTypeTaskStarted})) =
                Cardinality(EventsOf(id, FinishEventTypes)) + Cardinality(Unfinished(id))

C26_Witness ==
    \E id \in DOMAIN tasks :
        /\ Len(events) = 3
        /\ events[1].type = EventTypeTaskCreated /\ events[1].task_id = id
        /\ events[2].type = EventTypeTaskStarted /\ events[2].task_id = id
        /\ events[3].type = EventTypeTaskFailed /\ events[3].task_id = id
        /\ Quiescent(id)

\* C27: an Execute call of a built-in executor changes nothing of its task but the
\* output: it sets the output only when it returns success, and when it returns a
\* failure the output is as it was.
C27_ExecutorsSetOutputOnly ==
    [][\A t \in Threads :
          InvokeExecutor(t)
          => LET id == cur[t]
             IN  /\ tasks' = [tasks EXCEPT ![id].output = tasks'[id].output]
                 /\ err'[t] = NoErr => ~tasks'[id].output.isNil
                 /\ err'[t] # NoErr => tasks'[id].output = tasks[id].output]_vars

\* The sleep executor has returned the cancellation, the task is as it was started.
C27_Witness ==
    /\ pc["c1"] = "finish"
    /\ err["c1"] = ContextCanceled
    /\ tasks[1] = Start(NewTask("sleep", MkInput(None, None, None, Num(1), None), FALSE, 0), 0)

\* A value that is a number, whichever Go type carries it.
IsNumber(v) == v.t \in {"num", "int"}

\* The error the math executor is to return for an input, "<nil>" for success.
MathError(input) ==
    IF input.operation.t # "str" THEN "operation must be a string"
    ELSE IF ~IsNumber(input.a) THEN "a must be a number"
    ELSE IF ~IsNumber(input.b) THEN "b must be a number"
    ELSE IF input.operation.s = "divide" /\ input.b.n = 0 THEN "division by zero"
    ELSE IF input.operation.s \notin {"add", "subtract", "multiply", "divide"}
         THEN "unsupported operation: " \o input.operation.s
    ELSE NoErr

MathResult(input) ==
    CASE input.operation.s = "add" -> input.a.n + input.b.n
      [] input.operation.s = "subtract" -> input.a.n - input.b.n
      [] input.operation.s = "multiply" -> input.a.n * input.b.n
      [] input.operation.s = "divide" -> input.a.n \div input.b.n

\* C28: the math executor returns the failure of the first check that does not
\* hold, in the order operation, a, b; with a string and two numbers it fails with
\* "division by zero" exactly for divide by 0 and with the unsupported-operation
\* error exactly for an operation outside add, subtract, multiply, divide, and
\* otherwise succeeds with the output {operation, a, b, result}.
C28_MathValidates ==
    \A t \in Threads :
        pc[t] = "finish" /\ tasks[cur[t]].type = "math"
        => LET input == tasks[cur[t]].input
               output == tasks[cur[t]].output
           IN  /\ err[t] = MathError(input)
               /\ err[t] = NoErr
                  => /\ ~output.isNil
                     /\ output.operation = input.operation.s
                     /\ output.a = input.a.n
                     /\ output.b = input.b.n
                     /\ output.result = MathResult(input)

\* C29: the sleep executor, called with a number for the duration on a context
\* that is cancelled before that duration has passed, returns the cancellation at
\* the moment of the cancel and sets no output; called with no duration or with
\* one that is not a number, it returns the invalid-input failure at once.
C29_HonoursCancellation ==
    sleeper.phase = "returned"
    => LET d == sleeper.input.duration
       IN  /\ IsNumber(d) /\ sleeper.cancelledAt # NilTime /\ sleeper.cancelledAt < Tenths(d)
              => /\ sleeper.err = ContextCanceled
                 /\ sleeper.output.isNil
                 /\ sleeper.elapsed = sleeper.cancelledAt
           /\ ~IsNumber(d)
              => /\ sleeper.err = "duration must be a number"
                 /\ sleeper.output.isNil
                 /\ sleeper.elapsed = 0

\* C30: the sleep executor, called with a number d for the duration on a context
\* that is not cancelled, does not return success before d seconds have passed,
\* the fraction of d included, and its output reports slept_for_seconds = d.
C30_SleepsFullDuration ==
    /\ sleeper.phase = "returned"
    /\ IsNumber(sleeper.input.duration)
    /\ sleeper.cancelledAt = NilTime
    /\ sleeper.err = NoErr
    => /\ sleeper.elapsed >= Tenths(sleeper.input.duration)
       /\ sleeper.output.slept_for_seconds = sleeper.input.duration

\* A time.Duration counts nanoseconds in an int64, and encoding/json writes the
\* integer as it is: d seconds are written as d * 10^9.
MarshalDuration(d) == d * 1000000000

\* The duration_ms member of the JSON written for a task by the handlers; NilTime
\* when omitempty leaves the member out.
TaskDurationMs(task) ==
    IF task.duration = NilTime THEN NilTime ELSE MarshalDuration(task.duration)

\* C31: the duration_ms written for a task is its duration in milliseconds, one
\* second being written as 1000, as in the duration_ms of the events.
C31_DurationInMilliseconds ==
    \A id \in DOMAIN tasks :
        tasks[id].duration # NilTime
        => TaskDurationMs(tasks[id]) = Milliseconds(tasks[id].duration)

Running == {id \in DOMAIN tasks : tasks[id].status = TaskStatusRunning}

C33_SlotsConserved ==
    /\ semaphore = Cardinality(InProgress)
    /\ semaphore \in 0 .. maxConcurrent
    /\ (\A t \in Threads : pc[t] \notin {"invoke", "finish", "release"}) => semaphore = 0
    /\ \A c \in Callers :
          pc[c] = "idle" /\ ret.caller = c /\ ret.op = "ExecuteTask"
          => semaphore = Cardinality(InProgress \ {c})

\* A caller's wait for a slot was cancelled while another execution holds the slot.
C33_Witness ==
    /\ ret.op = "ExecuteTask" /\ ret.err = ContextCanceled
    /\ pc[ret.caller] = "idle"
    /\ semaphore = 1
    /\ \E t \in Threads : pc[t] = "finish" /\ err[t] # NoErr

\* Some thread is inside a call: waiting for a slot, executing, or about to publish.
MidCall == \E t \in Threads : pc[t] \notin {"idle", "unspawned", "exited"}

\* A thread inside a call can take its next step without anything a caller does.
CanProceed ==
    \E t \in Threads :
        ENABLED (\/ PublishTaskCreated(t) \/ AcquireSemaphore(t) \/ InvokeExecutor(t)
                 \/ FinishTask(t) \/ ReleaseSemaphore(t) \/ CancelStatus(t))

\* C34: the store's lock is free whenever a call waits for a slot or an executor
\* runs, so a caller's CreateTask, ListTasks and CancelTask (with its GetTask) can
\* always be carried out, and the threads inside calls are never all stuck, also
\* with every slot held and further execute calls waiting.
C34_StoreNeverBlocks ==
    /\ StoreUnlocked
    /\ \A c \in Callers :
          Idle(c) /\ calls < MaxCalls
          => /\ ENABLED ListTasks(c)
             /\ \A id \in TaskIds : ENABLED CancelTask(c, id)
             /\ Len(tasks) < MaxTasks
                => \A r \in Requests : ENABLED CreateTask(c, r.type, r.input, r.async)
    /\ MidCall => CanProceed

\* Every slot is held, an execute call waits for one, and a caller has listed or
\* cancelled meanwhile and can call again.
C34_Witness ==
    /\ semaphore = maxConcurrent
    /\ \E t \in Threads : pc[t] = "invoke"
    /\ \E t \in Threads : pc[t] = "acquire"
    /\ ret.op \in {"ListTasks", "CancelTask"} /\ ret.err = NoErr
    /\ \E c \in Callers : Idle(c) /\ calls < MaxCalls

\* C35: a pending task has no started_at, completed_at, duration, output or
\* error; a running task has started_at set and no completed_at or duration.
C35_PendingAndRunningFields ==
    \A id \in DOMAIN tasks :
        LET task == tasks[id]
        IN  /\ task.status = TaskStatusPending
               => /\ task.startedAt = NilTime /\ task.completedAt = NilTime
                  /\ task.duration = NilTime /\ task.output.isNil /\ task.error = ""
            /\ task.status = TaskStatusRunning
               => /\ task.startedAt # NilTime
                  /\ task.completedAt = NilTime /\ task.duration = NilTime

\* C36: no reader of a task finds it completed, failed or cancelled with
\* completed_at absent, or completed with no output: what Complete, Fail and
\* Cancel write is seen all at once.
C36_TerminalSeenWhole ==
    \A id \in DOMAIN tasks :
        LET task == GetTask(id).task
        IN  /\ task.status \in TerminalStatuses => task.completedAt # NilTime
            /\ task.status = TaskStatusCompleted => ~task.output.isNil

NoExecutorFound == {GetExecutor(<< >>, k).err : k \in TaskTypes}

\* C37: every stored task's kind resolves to an executor in every state, whatever
\* Register calls are made meanwhile, and no execution sequence takes the branch
\* of a failed resolution.
C37_StoredTasksResolve ==
    /\ \A id \in DOMAIN tasks : GetExecutor(executors, tasks[id].type).err = NoErr
    /\ \A t \in Threads : err[t] \notin NoExecutorFound
    /\ \A id \in DOMAIN tasks : tasks[id].error \notin NoExecutorFound

\* A task of a kind that Register added was stored, Register gave the kind another
\* executor afterwards, and the execution sequence resolved it and went on.
C37_Witness ==
    \E t \in Threads :
        /\ pc[t] = "finish"
        /\ tasks[cur[t]].type = "invalid"
        /\ executors["invalid"] = "error"
        /\ \E i, j \in DOMAIN registered :
              /\ i < j
              /\ registered[i] = [type |-> "invalid", executor |-> "echo"]
              /\ registered[j] = [type |-> "invalid", executor |-> "error"]

\* C38: an ExecuteTask whose context is cancelled before its select is evaluated
\* never enters the execution sequence, a slot being free or not: the task is not
\* started, and the call returns the cancellation error.
C38_CancelledNeverRuns ==
    [][\A c \in Callers :
          pc[c] = "acquire" /\ ctxDone[c] /\ pc'[c] # "acquire"
             => /\ pc'[c] = "idle"
                /\ ret' = [caller |-> c, op |-> "ExecuteTask", id |-> cur[c],
                            err |-> ContextCanceled]
                /\ tasks' = tasks]_vars

AsyncUnderWay ==
    {g \in Goroutines : pc[g] \in {"acquire", "invoke", "finish", "release"}}

\* C40: once Stop has closed the sink no lifecycle event is published; Stop closes
\* the sink only when no sequence started by ExecuteTaskAsync waits or runs; and
\* Stop on a server that was never started returns success and leaves the sink open.
C40_NoPublishAfterClose ==
    /\ [][server.closed => events' = events]_vars
    /\ [][~server.closed /\ server'.closed => AsyncUnderWay = {}]_vars
    /\ [][server.httpServer = "nil" /\ server.stop = "" /\ server'.stop # ""
             => /\ server'.stop = "returned"
                /\ server'.err = NoErr
                /\ ~server'.closed]_vars
====
